---- MODULE Spec2Model ----
(***************************************************************************)
(* A model of src/huffman.py: the HuffmanTree aggregate (root, code_table, *)
(* current_node), its tree builder, code table generator, encoder,         *)
(* stateful decoder, tree (de)serializer and container codec.              *)
(*                                                                         *)
(* Conventions.  A Python str of bits is a sequence over {0, 1}: the       *)
(* character '0' is 0 and '1' is 1; any other str handed to decode() is    *)
(* the value BadBit.  bytes are sequences over 0..255.  A dict is kept in  *)
(* insertion order where the code reads it in order (freq_dict: a sequence *)
(* of <<byte_value, freq>> pairs) and is a function where it is only       *)
(* looked up (code_table).  An exception is the string err carries; the    *)
(* empty string means the call returned.                                   *)
(***************************************************************************)
EXTENDS Integers, Sequences, FiniteSets, TLC

VARIABLES root, code_table, current_node, op, arg, ret, err

vars == <<root, code_table, current_node, op, arg, ret, err>>

obj == <<root, code_table, current_node>>

-----------------------------------------------------------------------------
(* Python values *)

\* None, as a node reference
None == [none |-> TRUE]

\* None, as a byte_value (Node.__init__'s default)
NoByte == -1

Node(freq, byte_value, left, right) ==
    [freq |-> freq, byte_value |-> byte_value, left |-> left, right |-> right]

is_leaf(node) == node.left = None /\ node.right = None

\* Node.__lt__
NodeLt(a, b) == a.freq < b.freq

\* {}
EmptyDict == <<>>

\* d1 after the assignments that built d2 (a later assignment to a key wins)
DictUpdate(d1, d2) == d2 @@ d1

-----------------------------------------------------------------------------
(* The exceptions the code raises, one string per raise statement or       *)
(* failing library call.                                                   *)

ErrEmptyFreq == "ValueError: frequency dict must not be empty"
ErrEmptyBytes == "ValueError: byte data must not be empty"
ErrEmptyData == "ValueError: data must not be empty"
ErrNotInTree == "ValueError: byte is not in the Huffman tree"
ErrBadBit == "ValueError: bit must be '0' or '1'"
ErrNoTree == "ValueError: tree is not initialized"
ErrTooShort == "ValueError: invalid compressed data (too short)"
ErrBadHeader == "ValueError: invalid header"
ErrBadTreeSize == "ValueError: invalid tree size"
ErrIntLiteral == "ValueError: invalid literal for int() with base 2"
ErrStruct == "struct.error: unpack requires a buffer of 4 bytes"
ErrAttribute == "AttributeError: 'NoneType' object has no attribute"
ErrBytesType == "TypeError: 'NoneType' object cannot be interpreted as an integer"

-----------------------------------------------------------------------------
(* Bits and bytes *)

RECURSIVE Pow2(_)
Pow2(n) == IF n = 0 THEN 1 ELSE 2 * Pow2(n - 1)

Min(a, b) == IF a < b THEN a ELSE b

\* s[a:b] of Python for 0 <= a, 0 <= b
Slice(s, a, b) == SubSeq(s, a + 1, Min(b, Len(s)))

\* format(byte, '08b')
Format08b(byte) ==
    <<(byte \div 128) % 2, (byte \div 64) % 2, (byte \div 32) % 2, (byte \div 16) % 2,
      (byte \div 8) % 2, (byte \div 4) % 2, (byte \div 2) % 2, byte % 2>>

\* int(bits, 2) for a non-empty str of binary digits
RECURSIVE IntBase2(_)
IntBase2(bits) ==
    IF bits = <<>> THEN 0
    ELSE 2 * IntBase2(SubSeq(bits, 1, Len(bits) - 1)) + bits[Len(bits)]

\* '0' * n
RECURSIVE Zeros(_)
Zeros(n) == IF n = 0 THEN <<>> ELSE Append(Zeros(n - 1), 0)

\* struct.pack('<I', n)
PackU32_little(n) ==
    <<n % 256, (n \div Pow2(8)) % 256, (n \div Pow2(16)) % 256, (n \div Pow2(24)) % 256>>

\* struct.pack('>I', n)
PackU32(n) ==
    <<(n \div Pow2(24)) % 256, (n \div Pow2(16)) % 256, (n \div Pow2(8)) % 256, n % 256>>

\* struct.unpack('>I', b)[0] for 4 bytes b.  The code only compares the value
\* with the length of a buffer or slices a buffer by it, so a value of 2^30 or
\* more is kept as 2^30, which no buffer here reaches (the model's integers
\* are 32 bits wide, Python's are not bounded).
UnpackU32(b) ==
    IF b[1] >= 64 THEN Pow2(30)
    ELSE b[1] * Pow2(24) + b[2] * Pow2(16) + b[3] * Pow2(8) + b[4]

\* the loop of _bitstring_to_bytes over the groups of 8 bits
RECURSIVE byte_array(_)
byte_array(bitstring_padded) ==
    IF bitstring_padded = <<>> THEN <<>>
    ELSE <<IntBase2(SubSeq(bitstring_padded, 1, 8))>>
            \o byte_array(SubSeq(bitstring_padded, 9, Len(bitstring_padded)))

_bitstring_to_bytes(bitstring) ==
    LET padding == (8 - (Len(bitstring) % 8)) % 8
    IN  byte_array(bitstring \o Zeros(padding))

\* ''.join(format(byte, '08b') for byte in data)
RECURSIVE join_bits(_)
join_bits(data) ==
    IF data = <<>> THEN <<>> ELSE Format08b(Head(data)) \o join_bits(Tail(data))

_bytes_to_bitstring(data, num_bits) == Slice(join_bits(data), 0, num_bits)

-----------------------------------------------------------------------------
(* heapq on a list of nodes (positions are Python's, from 0) *)

At(heap, pos) == heap[pos + 1]

Put(heap, pos, item) == [heap EXCEPT ![pos + 1] = item]

RECURSIVE _siftdown(_, _, _, _)
_siftdown(heap, startpos, pos, newitem) ==
    IF pos > startpos /\ NodeLt(newitem, At(heap, (pos - 1) \div 2))
    THEN _siftdown(Put(heap, pos, At(heap, (pos - 1) \div 2)), startpos,
                   (pos - 1) \div 2, newitem)
    ELSE Put(heap, pos, newitem)

RECURSIVE _siftup_loop(_, _, _, _)
_siftup_loop(heap, startpos, pos, newitem) ==
    LET endpos == Len(heap)
        leftpos == 2 * pos + 1
        rightpos == leftpos + 1
        childpos == IF rightpos < endpos /\ ~NodeLt(At(heap, leftpos), At(heap, rightpos))
                    THEN rightpos ELSE leftpos
    IN  IF leftpos < endpos
        THEN _siftup_loop(Put(heap, pos, At(heap, childpos)), startpos, childpos, newitem)
        ELSE _siftdown(Put(heap, pos, newitem), startpos, pos, newitem)

_siftup(heap, pos) == _siftup_loop(heap, pos, pos, At(heap, pos))

RECURSIVE heapify_from(_, _)
heapify_from(x, i) == IF i < 0 THEN x ELSE heapify_from(_siftup(x, i), i - 1)

heapify(x) == heapify_from(x, Len(x) \div 2 - 1)

\* heappop as list.pop(): the last item, not the smallest
heappop_last(heap) == <<heap[Len(heap)], SubSeq(heap, 1, Len(heap) - 1)>>

\* heappop(heap): <<the item returned, the heap left>>
heappop(heap) ==
    LET lastelt == heap[Len(heap)]
        rest == SubSeq(heap, 1, Len(heap) - 1)
    IN  IF rest = <<>> THEN <<lastelt, rest>>
        ELSE <<rest[1], _siftup(Put(rest, 0, lastelt), 0)>>

heappush(heap, item) == _siftdown(Append(heap, item), 0, Len(heap), item)

-----------------------------------------------------------------------------
(* Tree Builder and Code Table Generator *)

\* the while loop of build_from_frequencies; the node left in the queue
RECURSIVE merge_loop(_)
merge_loop(priority_queue) ==
    IF Len(priority_queue) > 1
    THEN LET p1 == heappop(priority_queue)
             p2 == heappop(p1[2])
             swap == p2[1].freq < p1[1].freq
             left == IF swap THEN p2[1] ELSE p1[1]
             right == IF swap THEN p1[1] ELSE p2[1]
             parent == Node(left.freq + right.freq, NoByte, left, right)
         IN  merge_loop(heappush(p2[2], parent))
    ELSE priority_queue[1]

\* [Node(freq, byte_value) for byte_value, freq in freq_dict.items()]
RECURSIVE leaf_nodes(_)
leaf_nodes(freq_dict) ==
    IF freq_dict = <<>> THEN <<>>
    ELSE <<Node(Head(freq_dict)[2], Head(freq_dict)[1], None, None)>>
            \o leaf_nodes(Tail(freq_dict))

\* the root build_from_frequencies leaves, for a non-empty freq_dict
build_root(freq_dict) ==
    IF Len(freq_dict) = 1
    THEN Node(freq_dict[1][2], freq_dict[1][1], None, None)
    ELSE merge_loop(heapify(leaf_nodes(freq_dict)))

\* traverse appending '0' on the way to either child
RECURSIVE traverse_same_bit(_, _)
traverse_same_bit(node, code) ==
    IF node = None THEN EmptyDict
    ELSE IF is_leaf(node)
         THEN node.byte_value :> (IF code # <<>> THEN code ELSE <<0>>)
         ELSE DictUpdate(traverse_same_bit(node.left, Append(code, 0)),
                         traverse_same_bit(node.right, Append(code, 0)))

\* traverse(node, code) of _build_code_table: the entries it assigns
RECURSIVE traverse(_, _)
traverse(node, code) ==
    IF node = None THEN EmptyDict
    ELSE IF is_leaf(node)
         THEN node.byte_value :> (IF code # <<>> THEN code ELSE <<0>>)
         ELSE DictUpdate(traverse(node.left, Append(code, 0)),
                         traverse(node.right, Append(code, 1)))

_build_code_table(r) == traverse(r, <<>>)

\* the code_table build_from_frequencies leaves, for a non-empty freq_dict
build_table(freq_dict) ==
    IF Len(freq_dict) = 1
    THEN freq_dict[1][1] :> <<0>>
    ELSE _build_code_table(build_root(freq_dict))

\* freq_dict of build_from_bytes: keys in order of first occurrence
RECURSIVE count_bytes(_, _)
count_bytes(data, freq_dict) ==
    IF data = <<>> THEN freq_dict
    ELSE LET byte_value == Head(data)
             at == {i \in 1..Len(freq_dict) : freq_dict[i][1] = byte_value}
         IN  count_bytes(Tail(data),
                 IF at # {}
                 THEN LET idx == CHOOSE i \in at : TRUE
                      IN  [freq_dict EXCEPT ![idx] = <<byte_value, freq_dict[idx][2] + 1>>]
                 ELSE Append(freq_dict, <<byte_value, 1>>))

-----------------------------------------------------------------------------
(* Stream Encoder *)

\* encode_bytes(data) under a code table: [ret, err]
RECURSIVE encode_bytes(_, _)
encode_bytes(table, data) ==
    IF data = <<>> THEN [ret |-> <<>>, err |-> ""]
    ELSE IF Head(data) \notin DOMAIN table THEN [ret |-> <<>>, err |-> ErrNotInTree]
    ELSE LET rest == encode_bytes(table, Tail(data))
         IN  IF rest.err # "" THEN rest
             ELSE [ret |-> table[Head(data)] \o rest.ret, err |-> ""]

-----------------------------------------------------------------------------
(* Stateful Decoder *)

\* decode taking the right child on '0' and the left child on '1'
decode_mirrored(r, cur, bit) ==
    IF bit \notin {0, 1} THEN [cur |-> cur, ret |-> <<>>, err |-> ErrBadBit]
    ELSE IF r = None THEN [cur |-> cur, ret |-> <<>>, err |-> ErrNoTree]
    ELSE LET c1 == IF cur = None THEN r ELSE cur
         IN  IF is_leaf(r)
             THEN [cur |-> c1, ret |-> <<TRUE, r.byte_value>>, err |-> ""]
             ELSE LET c2 == IF bit = 0 THEN c1.right ELSE c1.left
                  IN  IF c2 = None
                      THEN [cur |-> c2, ret |-> <<>>, err |-> ErrAttribute]
                      ELSE IF is_leaf(c2)
                           THEN [cur |-> r, ret |-> <<TRUE, c2.byte_value>>, err |-> ""]
                           ELSE [cur |-> c2, ret |-> <<FALSE, NoByte>>, err |-> ""]

\* decode looking for the tree, and moving the cursor to it, before it looks at the bit
decode_tree_first(r, cur, bit) ==
    IF r = None THEN [cur |-> cur, ret |-> <<>>, err |-> ErrNoTree]
    ELSE IF bit \notin {0, 1} THEN [cur |-> r, ret |-> <<>>, err |-> ErrBadBit]
    ELSE LET c1 == IF cur = None THEN r ELSE cur
         IN  IF is_leaf(r)
             THEN [cur |-> c1, ret |-> <<TRUE, r.byte_value>>, err |-> ""]
             ELSE LET c2 == IF bit = 0 THEN c1.left ELSE c1.right
                  IN  IF c2 = None
                      THEN [cur |-> c2, ret |-> <<>>, err |-> ErrAttribute]
                      ELSE IF is_leaf(c2)
                           THEN [cur |-> r, ret |-> <<TRUE, c2.byte_value>>, err |-> ""]
                           ELSE [cur |-> c2, ret |-> <<FALSE, NoByte>>, err |-> ""]

\* decode leaving the cursor on the leaf it has reached
decode_keep_cursor(r, cur, bit) ==
    IF bit \notin {0, 1} THEN [cur |-> cur, ret |-> <<>>, err |-> ErrBadBit]
    ELSE IF r = None THEN [cur |-> cur, ret |-> <<>>, err |-> ErrNoTree]
    ELSE LET c1 == IF cur = None THEN r ELSE cur
         IN  IF is_leaf(r)
             THEN [cur |-> c1, ret |-> <<TRUE, r.byte_value>>, err |-> ""]
             ELSE LET c2 == IF bit = 0 THEN c1.left ELSE c1.right
                  IN  IF c2 = None
                      THEN [cur |-> c2, ret |-> <<>>, err |-> ErrAttribute]
                      ELSE IF is_leaf(c2)
                           THEN [cur |-> c2, ret |-> <<TRUE, c2.byte_value>>, err |-> ""]
                           ELSE [cur |-> c2, ret |-> <<FALSE, NoByte>>, err |-> ""]

\* decode(bit) with root r and current_node cur: [cur, ret, err], ret = <<ok, byte_value>>
decode(r, cur, bit) ==
    IF bit \notin {0, 1} THEN [cur |-> cur, ret |-> <<>>, err |-> ErrBadBit]
    ELSE IF r = None THEN [cur |-> cur, ret |-> <<>>, err |-> ErrNoTree]
    ELSE LET c1 == IF cur = None THEN r ELSE cur
         IN  IF is_leaf(r)
             THEN [cur |-> c1, ret |-> <<TRUE, r.byte_value>>, err |-> ""]
             ELSE LET c2 == IF bit = 0 THEN c1.left ELSE c1.right
                  IN  IF c2 = None
                      THEN [cur |-> c2, ret |-> <<>>, err |-> ErrAttribute]
                      ELSE IF is_leaf(c2)
                           THEN [cur |-> r, ret |-> <<TRUE, c2.byte_value>>, err |-> ""]
                           ELSE [cur |-> c2, ret |-> <<FALSE, NoByte>>, err |-> ""]

\* the for loop of decode_bytes: [cur, ret, err], ret the list collected
RECURSIVE decode_loop(_, _, _, _)
decode_loop(r, cur, bitstring, result) ==
    IF bitstring = <<>> THEN [cur |-> cur, ret |-> result, err |-> ""]
    ELSE LET d == decode(r, cur, Head(bitstring))
         IN  IF d.err # "" THEN d
             ELSE decode_loop(r, d.cur, Tail(bitstring),
                              IF d.ret[1] THEN Append(result, d.ret[2]) ELSE result)

\* decode_bytes without the call of reset_decoder
decode_bytes_no_reset(r, bitstring) ==
    LET d == decode_loop(r, current_node, bitstring, <<>>)
    IN  IF d.err = "" /\ \E i \in 1..Len(d.ret) : d.ret[i] = NoByte
        THEN [cur |-> d.cur, ret |-> <<>>, err |-> ErrBytesType]
        ELSE d

\* decode_bytes(bitstring) with root r: reset_decoder, the loop, bytes(result)
decode_bytes(r, bitstring) ==
    LET d == decode_loop(r, r, bitstring, <<>>)
    IN  IF d.err = "" /\ \E i \in 1..Len(d.ret) : d.ret[i] = NoByte
        THEN [cur |-> d.cur, ret |-> <<>>, err |-> ErrBytesType]
        ELSE d

-----------------------------------------------------------------------------
(* Tree Serializer / Deserializer *)

\* serialize_node writing the right subtree before the left one
RECURSIVE serialize_right_first(_)
serialize_right_first(node) ==
    IF node = None THEN <<>>
    ELSE IF is_leaf(node) THEN <<1>> \o Format08b(node.byte_value)
    ELSE <<0>> \o serialize_right_first(node.right) \o serialize_right_first(node.left)

RECURSIVE serialize_node(_)
serialize_node(node) ==
    IF node = None THEN <<>>
    ELSE IF is_leaf(node) THEN <<1>> \o Format08b(node.byte_value)
    ELSE <<0>> \o serialize_node(node.left) \o serialize_node(node.right)

_serialize_tree(r) == serialize_node(r)

\* _deserialize_tree(bitstring, pos): [node, pos, err]
RECURSIVE _deserialize_tree(_, _)
_deserialize_tree(bitstring, pos) ==
    IF pos >= Len(bitstring) THEN [node |-> None, pos |-> pos, err |-> ""]
    ELSE IF bitstring[pos + 1] = 1
    THEN IF Slice(bitstring, pos + 1, pos + 9) = <<>>
         THEN [node |-> None, pos |-> pos, err |-> ErrIntLiteral]
         ELSE [node |-> Node(0, IntBase2(Slice(bitstring, pos + 1, pos + 9)), None, None),
               pos |-> pos + 9, err |-> ""]
    ELSE LET l == _deserialize_tree(bitstring, pos + 1)
         IN  IF l.err # "" THEN l
             ELSE LET rt == _deserialize_tree(bitstring, l.pos)
                  IN  IF rt.err # "" THEN rt
                      ELSE [node |-> Node(0, NoByte, l.node, rt.node),
                            pos |-> rt.pos, err |-> ""]

-----------------------------------------------------------------------------
(* Container Codec *)

\* b'HUF\x01'
header == <<72, 85, 70, 1>>

\* what compress(data) returns for non-empty data
compress(data) ==
    LET freq_dict == count_bytes(data, <<>>)
        encoded_bitstring == encode_bytes(build_table(freq_dict), data).ret
        tree_bytes == _bitstring_to_bytes(_serialize_tree(build_root(freq_dict)))
        data_bytes == _bitstring_to_bytes(encoded_bitstring)
    IN  header \o PackU32(Len(tree_bytes)) \o tree_bytes
               \o PackU32(Len(encoded_bitstring)) \o data_bytes

\* decompress comparing the header before it looks at the length
decompress_header_first(compressed_data) ==
    LET n == Len(compressed_data)
        tree_size == UnpackU32(Slice(compressed_data, 4, 8))
        tree_end == 8 + tree_size
        tree_bytes == Slice(compressed_data, 8, tree_end)
        data_bits == UnpackU32(Slice(compressed_data, tree_end, tree_end + 4))
        data_bytes == Slice(compressed_data, tree_end + 4, n)
        tree == _deserialize_tree(_bytes_to_bitstring(tree_bytes, Len(tree_bytes) * 8), 0)
        decoded == decode_bytes(tree.node, _bytes_to_bitstring(data_bytes, data_bits))
    IN  IF Slice(compressed_data, 0, 4) # header
        THEN [ret |-> <<>>, err |-> ErrBadHeader]
        ELSE IF n < 16 THEN [ret |-> <<>>, err |-> ErrTooShort]
        ELSE IF tree_end > n THEN [ret |-> <<>>, err |-> ErrBadTreeSize]
        ELSE IF Len(Slice(compressed_data, tree_end, tree_end + 4)) # 4
             THEN [ret |-> <<>>, err |-> ErrStruct]
        ELSE IF tree.err # "" THEN [ret |-> <<>>, err |-> tree.err]
        ELSE [ret |-> decoded.ret, err |-> decoded.err]

\* decompress(compressed_data): [ret, err]
decompress(compressed_data) ==
    LET n == Len(compressed_data)
        tree_size == UnpackU32(Slice(compressed_data, 4, 8))
        tree_end == 8 + tree_size
        tree_bytes == Slice(compressed_data, 8, tree_end)
        data_bits == UnpackU32(Slice(compressed_data, tree_end, tree_end + 4))
        data_bytes == Slice(compressed_data, tree_end + 4, n)
        tree == _deserialize_tree(_bytes_to_bitstring(tree_bytes, Len(tree_bytes) * 8), 0)
        decoded == decode_bytes(tree.node, _bytes_to_bitstring(data_bytes, data_bits))
    IN  IF n < 16 THEN [ret |-> <<>>, err |-> ErrTooShort]
        ELSE IF Slice(compressed_data, 0, 4) # header
             THEN [ret |-> <<>>, err |-> ErrBadHeader]
        ELSE IF tree_end > n THEN [ret |-> <<>>, err |-> ErrBadTreeSize]
        ELSE IF Len(Slice(compressed_data, tree_end, tree_end + 4)) # 4
             THEN [ret |-> <<>>, err |-> ErrStruct]
        ELSE IF tree.err # "" THEN [ret |-> <<>>, err |-> tree.err]
        ELSE [ret |-> decoded.ret, err |-> decoded.err]

-----------------------------------------------------------------------------
(* Calls on one HuffmanTree instance.  op, arg, ret and err record the      *)
(* last call: its name, its argument, what it returned (<<>> when it        *)
(* returned None or raised) and the exception it raised ("" when none).     *)

Returned(o, a, r) == op' = o /\ arg' = a /\ ret' = r /\ err' = ""

Raised(o, a, e) == op' = o /\ arg' = a /\ ret' = <<>> /\ err' = e

\* build_from_frequencies without the call of _build_code_table
Rebuild_stale_table(freq_dict) ==
    /\ root' = build_root(freq_dict)
    /\ code_table' = code_table
    /\ current_node' = root'

\* the assignments of build_from_frequencies for a non-empty freq_dict
Rebuild(freq_dict) ==
    /\ root' = build_root(freq_dict)
    /\ code_table' = build_table(freq_dict)
    /\ current_node' = root'

BuildFromFrequencies(freq_dict) ==
    IF freq_dict = <<>>
    THEN Raised("build_from_frequencies", freq_dict, ErrEmptyFreq) /\ UNCHANGED obj
    ELSE Rebuild(freq_dict) /\ Returned("build_from_frequencies", freq_dict, <<>>)

BuildFromBytes(data) ==
    IF data = <<>>
    THEN Raised("build_from_bytes", data, ErrEmptyBytes) /\ UNCHANGED obj
    ELSE Rebuild(count_bytes(data, <<>>)) /\ Returned("build_from_bytes", data, <<>>)

Encode(byte_value) ==
    /\ IF byte_value \in DOMAIN code_table
       THEN Returned("encode", <<byte_value>>, code_table[byte_value])
       ELSE Raised("encode", <<byte_value>>, ErrNotInTree)
    /\ UNCHANGED obj

EncodeBytes(data) ==
    /\ LET e == encode_bytes(code_table, data)
       IN  IF e.err = "" THEN Returned("encode_bytes", data, e.ret)
           ELSE Raised("encode_bytes", data, e.err)
    /\ UNCHANGED obj

Decode(bit) ==
    LET d == decode(root, current_node, bit)
    IN  /\ current_node' = d.cur
        /\ IF d.err = "" THEN Returned("decode", <<bit>>, d.ret)
           ELSE Raised("decode", <<bit>>, d.err)
        /\ UNCHANGED <<root, code_table>>

DecodeBytes(bitstring) ==
    LET d == decode_bytes(root, bitstring)
    IN  /\ current_node' = d.cur
        /\ IF d.err = "" THEN Returned("decode_bytes", bitstring, d.ret)
           ELSE Raised("decode_bytes", bitstring, d.err)
        /\ UNCHANGED <<root, code_table>>

ResetDecoder ==
    /\ current_node' = root
    /\ Returned("reset_decoder", <<>>, <<>>)
    /\ UNCHANGED <<root, code_table>>

GetCodeTable ==
    /\ Returned("get_code_table", <<>>, code_table)
    /\ UNCHANGED obj

SerializeTree ==
    /\ Returned("_serialize_tree", <<>>, _serialize_tree(root))
    /\ UNCHANGED obj

DeserializeTree(bitstring) ==
    /\ LET t == _deserialize_tree(bitstring, 0)
       IN  IF t.err = "" THEN Returned("_deserialize_tree", bitstring, <<t.node, t.pos>>)
           ELSE Raised("_deserialize_tree", bitstring, t.err)
    /\ UNCHANGED obj

Compress(data) ==
    IF data = <<>>
    THEN Raised("compress", data, ErrEmptyData) /\ UNCHANGED obj
    ELSE Rebuild(count_bytes(data, <<>>)) /\ Returned("compress", data, compress(data))

\* a static method: it works on a HuffmanTree of its own
Decompress(compressed_data) ==
    /\ LET d == decompress(compressed_data)
       IN  IF d.err = "" THEN Returned("decompress", compressed_data, d.ret)
           ELSE Raised("decompress", compressed_data, d.err)
    /\ UNCHANGED obj

\* HuffmanTree()
InitObj ==
    /\ root = None
    /\ code_table = EmptyDict
    /\ current_node = None

-----------------------------------------------------------------------------
(* Inputs *)

\* the i-th byte value of the inputs
Symbol(i) == (83 * i) % 256

\* a str element that is neither '0' nor '1'
BadBit == 2

\* the sequences over S of length 0..n
RECURSIVE SeqsUpTo(_, _)
SeqsUpTo(S, n) ==
    IF n = 0 THEN {<<>>}
    ELSE LET shorter == SeqsUpTo(S, n - 1)
         IN  shorter \cup {Append(s, x) : s \in shorter, x \in S}

\* the byte sequences of length 0..n in which the first byte is Symbol(1) and
\* every byte new to the sequence is the next unused Symbol: one sequence for
\* each pattern of repetitions
RECURSIVE Patterns(_)
Patterns(n) ==
    IF n = 0 THEN {<<>>}
    ELSE LET shorter == Patterns(n - 1)
             used(s) == Cardinality({s[i] : i \in 1..Len(s)})
         IN  shorter \cup
             UNION {{Append(s, Symbol(k)) : k \in 1..(used(s) + 1)} : s \in shorter}

\* the frequency tables over the first n symbols, counts 1..maxfreq, keys in
\* the order of the symbols (the empty table among them)
FreqDicts(n, maxfreq) ==
    {SelectSeq([i \in 1..n |-> <<Symbol(i), f[i]>>], LAMBDA p : p[2] > 0) :
        f \in [1..n -> 0..maxfreq]}

-----------------------------------------------------------------------------
(* One instance, any call in any order *)

\* the longest byte sequence handed to the instance
MaxData == 3

\* the longest str of bits handed to decode_bytes
MaxBits == 3

Data == Patterns(MaxData)

Bitstrings == SeqsUpTo({0, 1, BadBit}, MaxBits)

Init ==
    /\ InitObj
    /\ op = "HuffmanTree"
    /\ arg = <<>>
    /\ ret = <<>>
    /\ err = ""

Next ==
    \/ \E data \in Data : BuildFromFrequencies(count_bytes(data, <<>>))
    \/ \E data \in Data : BuildFromBytes(data)
    \/ \E data \in Data : Compress(data)
    \/ \E byte_value \in {Symbol(i) : i \in 1..MaxData} : Encode(byte_value)
    \/ \E data \in Data : EncodeBytes(data)
    \/ \E bit \in {0, 1, BadBit} : Decode(bit)
    \/ \E bitstring \in Bitstrings : DecodeBytes(bitstring)
    \/ ResetDecoder
    \/ GetCodeTable
    \/ op = "compress" /\ err = "" /\ Decompress(ret)

Spec == Init /\ [][Next]_vars

-----------------------------------------------------------------------------
(* One tree, built from an input of the frequency-table source or of the    *)
(* raw-buffer source, then used: encode_bytes and decode_bytes of the       *)
(* result, _serialize_tree and _deserialize_tree of the result.             *)

\* the symbols of the frequency tables
NumSymbols == 4

\* the largest count of the frequency tables
MaxFreq == 3

\* the longest byte sequence encoded under a built tree
MaxWord == 2

Symbols == {Symbol(i) : i \in 1..NumSymbols}

Built == op \in {"build_from_frequencies", "build_from_bytes"} /\ err = ""

\* the bits of the tree blob compress stores: the serialized tree, zero padded
TreeBlobBits(tree_bitstring) ==
    _bytes_to_bitstring(_bitstring_to_bytes(tree_bitstring),
                        Len(_bitstring_to_bytes(tree_bitstring)) * 8)

InitBuild ==
    /\ InitObj
    /\ \/ op = "freq_dict" /\ arg \in FreqDicts(NumSymbols, MaxFreq)
       \/ op = "data" /\ arg \in Patterns(NumSymbols)
    /\ ret = <<>>
    /\ err = ""

NextBuild ==
    \/ op = "freq_dict" /\ BuildFromFrequencies(arg)
    \/ op = "data" /\ BuildFromBytes(arg)
    \/ Built /\ \E data \in SeqsUpTo(Symbols, MaxWord) : EncodeBytes(data)
    \/ op = "encode_bytes" /\ err = "" /\ DecodeBytes(ret)
    \/ Built /\ SerializeTree
    \/ op = "_serialize_tree" /\ DeserializeTree(ret)
    \/ op = "_serialize_tree" /\ DeserializeTree(TreeBlobBits(ret))

SpecBuild == InitBuild /\ [][NextBuild]_vars

-----------------------------------------------------------------------------
(* The container: compress of a byte buffer, decompress of what compress    *)
(* returned, of that buffer truncated or with one byte changed, and of a    *)
(* raw buffer.                                                              *)

\* the longest byte buffer compressed
MaxLen == 5

\* the byte values written over a byte of a container
FillBytes == {0, 1, 64, 127, 255}

Compressed == op = "compress" /\ err = ""

InitCodec ==
    /\ InitObj
    /\ op = "data"
    /\ arg \in Patterns(MaxLen)
    /\ ret = <<>>
    /\ err = ""

NextCodec ==
    \/ op = "data" /\ Compress(arg)
    \/ op = "data" /\ Decompress(arg)
    \/ Compressed /\ Decompress(ret)
    \/ Compressed /\ \E k \in 0..(Len(ret) - 1) : Decompress(Slice(ret, 0, k))
    \/ Compressed /\ \E i \in 1..Len(ret), v \in FillBytes :
                        Decompress([ret EXCEPT ![i] = v])
    \/ Compressed /\ \E tree_size \in 0..Len(ret) :
                        Decompress([ret EXCEPT ![8] = tree_size])

SpecCodec == InitCodec /\ [][NextCodec]_vars

-----------------------------------------------------------------------------
(* The failures of the error taxonomy, by the raise statements that report  *)
(* them.                                                                    *)

EmptyInput == {ErrEmptyFreq, ErrEmptyBytes, ErrEmptyData}

SymbolNotInTable == {ErrNotInTree}

InvalidBit == {ErrBadBit}

UninitializedTree == {ErrNoTree}

InvalidContainer == {ErrTooShort, ErrBadHeader, ErrBadTreeSize}

TypedFailures ==
    EmptyInput \cup SymbolNotInTable \cup InvalidBit \cup UninitializedTree
        \cup InvalidContainer

-----------------------------------------------------------------------------
(* Properties *)

IsPrefix(s, t) == Len(s) <= Len(t) /\ SubSeq(t, 1, Len(s)) = s

\* the concatenation of the codes of the bytes of data, all of them in table
RECURSIVE CodesOf(_, _)
CodesOf(table, data) ==
    IF data = <<>> THEN <<>> ELSE table[Head(data)] \o CodesOf(table, Tail(data))

\* a big-endian unsigned read of the 4 bytes of buf from offset at, for values
\* below 2^16; anything larger reads as 2^16
BigEndian(buf, at) ==
    IF buf[at + 1] # 0 \/ buf[at + 2] # 0 THEN Pow2(16)
    ELSE buf[at + 3] * 256 + buf[at + 4]

CeilDiv8(n) == (n + 7) \div 8

\* C1: decompress, given the buffer compress has just returned for a
\* non-empty byte buffer, returns that byte buffer.
RoundTripIdentity ==
    [][(Compressed /\ op' = "decompress" /\ arg' = ret) => (err' = "" /\ ret' = arg)]_vars

\* C2: under a built tree, decode_bytes of the bitstring encode_bytes returned
\* for a byte sequence x returns x, for every x that encodes to the bitstring
\* decoded (the tree of one symbol, with its code '0', included).
DecodeInvertsEncode ==
    (op = "decode_bytes" /\ root # None) =>
        \A x \in SeqsUpTo(Symbols, MaxWord) :
            (encode_bytes(code_table, x).err = "" /\ encode_bytes(code_table, x).ret = arg)
                => (err = "" /\ ret = x)

DecodedTwoCodes ==
    /\ op = "decode_bytes" /\ err = ""
    /\ Len(ret) = 2 /\ ret[1] # ret[2]
    /\ Len(arg) = 3
    /\ encode_bytes(code_table, ret).ret = arg

\* C3: the code table of a built tree is prefix-free: no code is empty, and of
\* two distinct symbols neither has a code that is a prefix of the other's.
PrefixFree ==
    Built =>
        /\ \A a \in DOMAIN code_table : code_table[a] # <<>>
        /\ \A a, b \in DOMAIN code_table :
              a # b => ~IsPrefix(code_table[a], code_table[b])

BuiltUnevenCodes ==
    /\ op = "build_from_frequencies" /\ err = ""
    /\ Cardinality(DOMAIN code_table) = NumSymbols
    /\ \E a, b \in DOMAIN code_table : Len(code_table[a]) < Len(code_table[b])

\* the frequency table the tree of a Built state was built from
BuiltFrom == IF op = "build_from_frequencies" THEN arg ELSE count_bytes(arg, <<>>)

\* sum over the symbols of freq(s) * len(code(s))
RECURSIVE WeightedLength(_, _)
WeightedLength(freq_dict, table) ==
    IF freq_dict = <<>> THEN 0
    ELSE Head(freq_dict)[2] * Len(table[Head(freq_dict)[1]])
            + WeightedLength(Tail(freq_dict), table)

RECURSIVE TotalFreq(_, _)
TotalFreq(S, freq_dict) ==
    IF S = {} THEN 0
    ELSE LET i == CHOOSE i \in S : TRUE
         IN  freq_dict[i][2] + TotalFreq(S \ {i}, freq_dict)

SetMin(S) == CHOOSE x \in S : \A y \in S : x <= y

\* the least weighted length of a full binary tree whose leaves are the
\* entries S of freq_dict: a single leaf weighs nothing; a tree of two
\* subtrees weighs what they weigh, and every leaf is one level deeper
RECURSIVE LeastWeightedLength(_, _)
LeastWeightedLength(S, freq_dict) ==
    IF Cardinality(S) <= 1 THEN 0
    ELSE TotalFreq(S, freq_dict)
         + SetMin({LeastWeightedLength(A, freq_dict)
                     + LeastWeightedLength(S \ A, freq_dict) :
                   A \in {B \in SUBSET S : SetMin(S) \in B /\ B # S}})

\* C4: for a frequency table of two entries or more, the tree built has the
\* least frequency-weighted total code length of all full binary trees over
\* the table's symbols.
OptimalCodeLength ==
    (Built /\ Len(BuiltFrom) >= 2) =>
        WeightedLength(BuiltFrom, code_table)
            = LeastWeightedLength(1..Len(BuiltFrom), BuiltFrom)

BuiltWithTies ==
    /\ op = "build_from_frequencies" /\ err = ""
    /\ Len(arg) = NumSymbols
    /\ \E i, j \in 1..Len(arg) : i # j /\ arg[i][2] = arg[j][2]
    /\ \E a, b \in DOMAIN code_table : Len(code_table[a]) < Len(code_table[b])

\* C5: the tree deserialized from the bitstring _serialize_tree returned, with
\* or without the zero bits that pad it to whole bytes, has the code table of
\* the tree serialized.
SerializationRoundTrip ==
    op = "_deserialize_tree" =>
        /\ err = ""
        /\ _build_code_table(ret[1]) = code_table

DeserializedPadded ==
    /\ op = "_deserialize_tree" /\ err = ""
    /\ Len(arg) > ret[2]
    /\ Cardinality(DOMAIN code_table) >= 3

\* C6: the buffer compress returns is the magic, the byte length T of the tree
\* blob (big-endian), the serialized tree zero padded to T = ceil(bits/8)
\* bytes, the number N of payload bits (big-endian), N the sum of the code
\* lengths of the input, and the codes zero padded to ceil(N/8) bytes:
\* 12 + T + ceil(N/8) bytes in all.
ContainerLayout ==
    Compressed =>
        LET tree_bits == _serialize_tree(root)
            T == CeilDiv8(Len(tree_bits))
            codes == CodesOf(code_table, arg)
            N == Len(codes)
        IN  /\ SubSeq(ret, 1, 4) = <<72, 85, 70, 1>>
            /\ BigEndian(ret, 4) = T
            /\ join_bits(SubSeq(ret, 9, 8 + T)) = tree_bits \o Zeros(8 * T - Len(tree_bits))
            /\ BigEndian(ret, 8 + T) = N
            /\ join_bits(SubSeq(ret, 13 + T, Len(ret))) = codes \o Zeros(8 * CeilDiv8(N) - N)
            /\ Len(ret) = 12 + T + CeilDiv8(N)

CompressedWithPadding ==
    /\ Compressed
    /\ Cardinality(DOMAIN code_table) >= 3
    /\ Len(_serialize_tree(root)) % 8 # 0
    /\ Len(CodesOf(code_table, arg)) % 8 # 0

\* C7: decompress fails with InvalidContainer, returning nothing, when the
\* buffer is shorter than the 16 bytes the code asks for; else when its first
\* 4 bytes are not the magic; else when 8 + the stated tree-blob length is
\* more than the buffer's length: the first of the three that applies is the
\* one reported.
RejectsInOrder ==
    op = "decompress" =>
        IF Len(arg) < 16 THEN err = ErrTooShort /\ ret = <<>>
        ELSE IF SubSeq(arg, 1, 4) # <<72, 85, 70, 1>> THEN err = ErrBadHeader /\ ret = <<>>
        ELSE IF 8 + BigEndian(arg, 4) > Len(arg) THEN err = ErrBadTreeSize /\ ret = <<>>
        ELSE TRUE

RejectedTreeSize ==
    /\ op = "decompress"
    /\ Len(arg) >= 16
    /\ SubSeq(arg, 1, 4) = <<72, 85, 70, 1>>
    /\ 8 + BigEndian(arg, 4) > Len(arg)
    /\ err = ErrBadTreeSize

\* C8: decompress returns a byte sequence or fails with one of the typed
\* failures of the taxonomy.
OnlyTypedFailures == op = "decompress" => err \in {""} \cup TypedFailures

\* C9: decode_bytes on an instance with no tree fails with UninitializedTree,
\* whatever the bitstring, the empty one included.
DecodeBytesNeedsTree ==
    (op = "decode_bytes" /\ root = None /\ \A i \in 1..Len(arg) : arg[i] \in {0, 1})
        => err = ErrNoTree

\* C10: decode of anything but '0' or '1' fails with InvalidBit and leaves
\* root, code_table and current_node as they were.
InvalidBitRejected ==
    [][(op' = "decode" /\ arg' = <<BadBit>>) => (err' = ErrBadBit /\ UNCHANGED obj)]_vars

RejectedMidTraversal ==
    /\ op = "decode" /\ arg = <<BadBit>> /\ err = ErrBadBit
    /\ root # None
    /\ current_node \notin {None, root}

\* the (byte value, path) pairs of the leaves under node, a path being the
\* bits from node down to the leaf, 0 to the left and 1 to the right
RECURSIVE LeafPaths(_, _)
LeafPaths(node, path) ==
    IF is_leaf(node) THEN {<<node.byte_value, path>>}
    ELSE LeafPaths(node.left, Append(path, 0)) \cup LeafPaths(node.right, Append(path, 1))

\* table holds exactly the codes the tree r gives by traversal
ReflectsTree(table, r) ==
    IF r = None THEN table = EmptyDict
    ELSE {<<k, table[k]>> : k \in DOMAIN table} =
            (IF is_leaf(r) THEN {<<r.byte_value, <<0>>>>} ELSE LeafPaths(r, <<>>))

\* C11: after any sequence of calls on one instance, failed ones included,
\* the code table is the one derived from the current root by the left=0 /
\* right=1 traversal (a single leaf gets "0", no tree gives the empty table),
\* and get_code_table returns that table.
CodeTableReflectsRoot ==
    /\ ReflectsTree(code_table, root)
    /\ (op = "get_code_table" => ret = code_table)

GotTableAfterRebuild ==
    /\ op = "get_code_table"
    /\ root # None /\ ~is_leaf(root)
    /\ Cardinality(DOMAIN ret) = 3
    /\ \E k \in DOMAIN ret : Len(ret[k]) = 2

\* the (path, node) pairs of the internal nodes of the tree under node
RECURSIVE InternalPaths(_, _)
InternalPaths(node, path) ==
    IF node = None \/ is_leaf(node) THEN {}
    ELSE {<<path, node>>} \cup InternalPaths(node.left, Append(path, 0))
                          \cup InternalPaths(node.right, Append(path, 1))

\* the bits that lead from the root r to its internal node cur
PathTo(r, cur) == (CHOOSE p \in InternalPaths(r, <<>>) : p[2] = cur)[1]

IsInternalNode(r, cur) == \E p \in InternalPaths(r, <<>>) : p[2] = cur

TwoOrMoreSymbols(r) == r # None /\ ~is_leaf(r)

\* C12: on a tree of two or more symbols the cursor is, between calls, an
\* internal node of the current tree, the root after a reset, a build or an
\* emission; the bits consumed since then are the path to it.  decode(bit)
\* of a valid bit returns (True, v) exactly when these bits followed by bit
\* are the code of v in the code table, and then the cursor is back at the
\* root; otherwise it returns (False, None) and the cursor has moved one
\* step down, still on an internal node.
DecodeEmitsOnCode ==
    [][/\ TwoOrMoreSymbols(root') => IsInternalNode(root', current_node')
       /\ op' \in {"reset_decoder", "build_from_frequencies", "build_from_bytes", "compress"}
            /\ err' = "" /\ TwoOrMoreSymbols(root') => current_node' = root'
       /\ (op' = "decode" /\ arg'[1] \in {0, 1} /\ TwoOrMoreSymbols(root))
            => LET word == Append(PathTo(root, current_node), arg'[1])
               IN  /\ err' = ""
                   /\ \A v \in DOMAIN code_table :
                        (ret' = <<TRUE, v>>) <=> (code_table[v] = word)
                   /\ IF \E v \in DOMAIN code_table : code_table[v] = word
                      THEN current_node' = root
                      ELSE /\ ret' = <<FALSE, NoByte>>
                           /\ IsInternalNode(root, current_node')
                           /\ PathTo(root, current_node') = word]_vars

EmittedAfterTwoBits ==
    /\ op = "decode" /\ err = ""
    /\ TwoOrMoreSymbols(root)
    /\ ret[1] = TRUE
    /\ Len(code_table[ret[2]]) = 2
    /\ current_node = root

\* the bytes whose codes, one after the other, are read off bitstring from
\* its start, pending being the bits read since the last whole code; a
\* trailing incomplete code gives nothing
RECURSIVE ParseCodes(_, _, _)
ParseCodes(table, bitstring, pending) ==
    IF bitstring = <<>> THEN <<>>
    ELSE LET word == Append(pending, Head(bitstring))
         IN  IF \E v \in DOMAIN table : table[v] = word
             THEN <<CHOOSE v \in DOMAIN table : table[v] = word>>
                      \o ParseCodes(table, Tail(bitstring), <<>>)
             ELSE ParseCodes(table, Tail(bitstring), word)

\* a single-leaf tree emits its symbol on every bit
Repeat(v, n) == [i \in 1..n |-> v]

\* C13: on a built tree decode_bytes(s) starts at the root: what it returns
\* is fixed by the tree and s alone (the symbols whose codes s spells from
\* its first bit on, InvalidBit when s holds anything but '0' and '1'),
\* wherever earlier decode or decode_bytes calls have left the cursor.
DecodeBytesStartsAtRoot ==
    [][(op' = "decode_bytes" /\ root # None)
         => IF \E i \in 1..Len(arg') : arg'[i] \notin {0, 1}
            THEN err' = ErrBadBit
            ELSE /\ err' = ""
                 /\ ret' = IF is_leaf(root)
                           THEN Repeat(root.byte_value, Len(arg'))
                           ELSE ParseCodes(code_table, arg', <<>>)]_vars

DecodedAndLeftMidCode ==
    /\ op = "decode_bytes" /\ err = ""
    /\ TwoOrMoreSymbols(root)
    /\ Len(ret) >= 1
    /\ Len(code_table[ret[1]]) = 2
    /\ current_node # root

====
